---- MODULE Spec2Model ----
(***************************************************************************)
(* Cache-aside user service: UserService (HTTP handlers) coordinating a    *)
(* PostgreSQL store (PostgreSQLUserStorer, through GORM) and a Redis cache *)
(* (RedisUserCacher).  Every request is served by its own goroutine; the   *)
(* handlers hold no state of their own, so the shared state is the users   *)
(* table and the Redis key space.  A handler is cut into one step per      *)
(* database statement / Redis command, which is where goroutines           *)
(* interleave.                                                             *)
(***************************************************************************)
EXTENDS Integers, Sequences, FiniteSets, TLC

\* ------------------------------------------------------------------ bounds
NumWorkers == 2      \* requests that can be in flight at once
MaxId == 1           \* rows the users table can hold (ids 1..MaxId)
MaxRows == 2         \* the same where the rows are served one request at a time
MaxFaults == 1       \* adapter calls that fail in one run

Workers == 1..NumWorkers
Names == {"a", "b"}

\* ------------------------------------------------------- net/http statuses
StatusOK == 200
StatusCreated == 201
StatusNoContent == 204
StatusBadRequest == 400
StatusNotFound == 404
StatusInternalServerError == 500

VARIABLES
    store,      \* users table: id -> row (a User value), soft-deleted rows included
    seq,        \* last value handed out by the table's id sequence
    cache,      \* Redis: key (decimal string) -> JSON document
    req,        \* per worker: the request it serves and the handler's locals
    faults,     \* adapter calls that have failed so far
    committed   \* history: id -> the names the users table has held for id

vars == <<store, seq, cache, req, faults, committed>>

\* ------------------------------------------------------------ the User type
\* gorm.Model{ID, CreatedAt, UpdatedAt, DeletedAt} plus Name.  Times are
\* abstracted to two values: 0 is the zero time.Time, Now any time the
\* database or a client supplied.
Now == 1

NoDeletedAt == [Time |-> 0, Valid |-> FALSE]

ZeroUser ==
    [ID |-> 0, CreatedAt |-> 0, UpdatedAt |-> 0, DeletedAt |-> NoDeletedAt, Name |-> ""]

\* ------------------------------------------------------- strconv.Atoi / Itoa
\* A string is a sequence of one-character strings.
Digits == <<"0", "1", "2", "3", "4", "5", "6", "7", "8", "9">>

IsDigit(c) == \E i \in 1..10 : Digits[i] = c

DigitVal(c) == (CHOOSE i \in 1..10 : Digits[i] = c) - 1

RECURSIVE DigitsVal(_)
DigitsVal(s) ==
    IF s = <<>> THEN 0
    ELSE 10 * DigitsVal(SubSeq(s, 1, Len(s) - 1)) + DigitVal(s[Len(s)])

\* strconv.Atoi: an optional sign, then at least one digit, nothing else.
Atoi(s) ==
    LET signed == s # <<>> /\ s[1] \in {"+", "-"}
        ds == IF signed THEN Tail(s) ELSE s
    IN  IF ds = <<>> \/ \E i \in 1..Len(ds) : ~IsDigit(ds[i])
        THEN [val |-> 0, err |-> TRUE]
        ELSE [val |-> IF signed /\ s[1] = "-" THEN 0 - DigitsVal(ds) ELSE DigitsVal(ds),
              err |-> FALSE]

RECURSIVE ItoaNat(_)
ItoaNat(n) ==
    IF n < 10 THEN <<Digits[n + 1]>>
    ELSE ItoaNat(n \div 10) \o <<Digits[(n % 10) + 1]>>

\* strconv.Itoa
Itoa(n) == IF n < 0 THEN <<"-">> \o ItoaNat(0 - n) ELSE ItoaNat(n)

\* validateId: "" is refused, then anything Atoi refuses, then anything <= 0.
validateId_ZeroAllowed(id) ==
    IF id = <<>> THEN [id |-> 0, err |-> TRUE]
    ELSE LET r == Atoi(id)
         IN  IF r.err \/ r.val < 0 THEN [id |-> 0, err |-> TRUE]
             ELSE [id |-> r.val, err |-> FALSE]

validateId(id) ==
    IF id = <<>> THEN [id |-> 0, err |-> TRUE]
    ELSE LET r == Atoi(id)
         IN  IF r.err \/ r.val <= 0 THEN [id |-> 0, err |-> TRUE]
             ELSE [id |-> r.val, err |-> FALSE]

\* ------------------------------------------------------------ encoding/json
\* The JSON document of a User: the gorm.Model fields under their Go names,
\* Name under its tag "name", DeletedAt as null (<<>>) or a time (<<t>>).
Marshal(u) ==
    [ID |-> u.ID, CreatedAt |-> u.CreatedAt, UpdatedAt |-> u.UpdatedAt,
     DeletedAt |-> IF u.DeletedAt.Valid THEN <<u.DeletedAt.Time>> ELSE <<>>,
     name |-> u.Name]

Unmarshal(j) ==
    [ID |-> j.ID, CreatedAt |-> j.CreatedAt, UpdatedAt |-> j.UpdatedAt,
     DeletedAt |-> IF j.DeletedAt = <<>> THEN NoDeletedAt
                   ELSE [Time |-> j.DeletedAt[1], Valid |-> TRUE],
     Name |-> j.name]

\* ---------------------------------------------------------------- requests
Ops == {"Create", "List", "Read", "Update", "Delete"}

\* Path values {id}: the decimal strings of the ids 1..MaxId and of 0, and
\* with them non-numeric, negative and signed ones.  The wildcard {id} matches
\* a segment that is not empty, so r.PathValue("id") is never "" in a handler
\* the mux called.
PlainIds == {Itoa(i) : i \in 0..MaxId}

IdStrings == PlainIds \cup {<<"a">>, <<"1", "a">>, <<"-", "1">>, <<"+", "1">>}

\* Request bodies: a JSON object with the fields the client chose to send, or
\* something json.Decoder refuses (an empty body included).
EmptyBody == [valid |-> FALSE, ID |-> 0, name |-> "", DeletedAt |-> <<>>]

ObjectBody(id, name, deletedAt) ==
    [valid |-> TRUE, ID |-> id, name |-> name, DeletedAt |-> deletedAt]

\* POST bodies: no object, no name, a name, a name with an ID, a name with a
\* DeletedAt.
CreateBodies ==
    {EmptyBody, ObjectBody(0, "", <<>>), ObjectBody(0, "a", <<>>), ObjectBody(0, "b", <<>>),
     ObjectBody(MaxId, "a", <<>>), ObjectBody(0, "b", <<Now>>)}

\* PUT bodies: no object, no name, a name, a name with an ID that is not the
\* path's.
UpdateBodies ==
    {EmptyBody, ObjectBody(0, "", <<>>), ObjectBody(0, "a", <<>>),
     ObjectBody(MaxId + 1, "b", <<>>)}

\* json.NewDecoder(r.Body).Decode(&user): fields absent from the body keep
\* their zero value.
Decode(body) ==
    IF ~body.valid THEN [user |-> ZeroUser, err |-> TRUE]
    ELSE [user |-> [ZeroUser EXCEPT !.ID = body.ID, !.Name = body.name,
                                    !.DeletedAt = IF body.DeletedAt = <<>> THEN NoDeletedAt
                                                  ELSE [Time |-> body.DeletedAt[1],
                                                        Valid |-> TRUE]],
          err |-> FALSE]

\* The handlers' check of the decoded name: user.Name == "".
NameMissing_Never(user) == FALSE

NameMissing(user) == user.Name = ""

NoRequest == [op |-> "none", id |-> 0, name |-> "", status |-> 0, rid |-> 0]

\* What is remembered of a completed request: its operation, validated id,
\* the name it sent, the status it got and the ID in the body it got.
Summary(r) ==
    [op |-> r.op, id |-> r.id, name |-> r.body.name, status |-> r.status,
     rid |-> IF r.out # <<>> THEN r.out[1].ID ELSE 0]

Visible(id) == id \in DOMAIN store /\ ~store[id].DeletedAt.Valid

SoftDeleted(id) == id \in DOMAIN store /\ store[id].DeletedAt.Valid

\* A worker's state: the request (op, idStr, body), the handler's position and
\* locals (id, updates, user, existingUser), what it has written to the
\* ResponseWriter (status, out), and a record of the run: the adapter calls
\* made with their results, the raw value Cache.Get found or Cache.Del
\* removed, whether an adapter call of this request failed and, for a GET /users/{id}: the write request
\* that had just succeeded when it was accepted with nothing else in flight
\* (pred), and whether the row of its id was soft-deleted at that moment.
Idle ==
    [pc |-> "idle", op |-> "none", idStr |-> <<>>, body |-> EmptyBody,
     id |-> 0, updates |-> ZeroUser, user |-> ZeroUser, existingUser |-> ZeroUser,
     status |-> 0, out |-> <<>>,
     calls |-> <<>>, got |-> <<>>, faulted |-> FALSE, pred |-> NoRequest,
     afterDelete |-> FALSE]

Completed == {w \in Workers : req[w].pc = "done"}

Succeeded(r) ==
    \/ r.op = "Create" /\ r.status = StatusCreated
    \/ r.op = "Update" /\ r.status = StatusOK
    \/ r.op = "Delete" /\ r.status = StatusNoContent

\* The write request for id that had just succeeded, nothing being in flight.
Predecessor(id) ==
    LET c == {w \in Completed : Succeeded(req[w]) /\ id \in {req[w].id, Summary(req[w]).rid}}
    IN  IF c = {} \/ \E w \in Workers : req[w].pc \notin {"idle", "done"} THEN NoRequest
        ELSE Summary(req[CHOOSE w \in c : TRUE])

NewRequest(op, idStr, body) ==
    LET a == Atoi(idStr)
    IN  [Idle EXCEPT !.pc = "begin", !.op = op, !.idStr = idStr, !.body = body,
                     !.pred = IF op = "Read" /\ ~a.err /\ a.val > 0 THEN Predecessor(a.val)
                              ELSE NoRequest,
                     !.afterDelete = op = "Read" /\ ~a.err /\ SoftDeleted(a.val)]

\* http.Error / WriteHeader + Encode: the handler returns after it.
Respond(r, status, out) == [r EXCEPT !.pc = "done", !.status = status, !.out = out]

Call(r, name, res) == [r EXCEPT !.calls = Append(@, [call |-> name, res |-> res])]

InFlight(w) == req[w].pc \notin {"idle", "done"}

\* A request goes to the first worker that is not serving one.
Free(w) == ~InFlight(w) /\ \A x \in Workers : x < w => InFlight(x)

\* An adapter call returns, and may fail (connection error) as long as the
\* run's budget of failures is not used up; the first definition is an adapter
\* whose calls never return.
FailChoices_NoReturn == {}

FailChoices == IF faults < MaxFaults THEN BOOLEAN ELSE {FALSE}

\* Worker w moves to r2; fail tells whether an adapter call failed in the step.
Step(w, r2, fail) ==
    /\ req' = [req EXCEPT ![w] = [r2 EXCEPT !.faulted = @ \/ fail]]
    /\ faults' = IF fail THEN faults + 1 ELSE faults

\* Worker w accepts a request and runs its handler up to the first adapter
\* call, which leaves it as r2; the responses already delivered are dropped.
Accept(w, r2) ==
    /\ req' = [x \in Workers |-> IF x = w THEN r2
                                  ELSE IF req[x].pc = "done" THEN Idle ELSE req[x]]
    /\ UNCHANGED <<store, seq, cache, faults, committed>>

Put(f, k, v) == [x \in DOMAIN f \cup {k} |-> IF x = k THEN v ELSE f[x]]

Remove(f, k) == [x \in DOMAIN f \ {k} |-> f[x]]

\* The history after a statement wrote name to the row of id.
Commit(id, name) ==
    Put(committed, id, (IF id \in DOMAIN committed THEN committed[id] ELSE {}) \cup {name})

\* ------------------------------------------------------- RedisUserCacher
\* Get: redis.Nil is a miss (nil, nil); a stored document is unmarshalled.
CacherGet(key, fail) ==
    IF fail THEN [user |-> ZeroUser, found |-> FALSE, err |-> TRUE]
    ELSE IF key \notin DOMAIN cache THEN [user |-> ZeroUser, found |-> FALSE, err |-> FALSE]
    ELSE [user |-> Unmarshal(cache[key]), found |-> TRUE, err |-> FALSE]

\* A SET with an expiration: an entry written before is gone when the key is
\* written again.
CacherSet_Expiring(key, user, fail) ==
    IF key \in DOMAIN cache THEN Remove(cache, key) ELSE Put(cache, key, Marshal(user))

\* A SET that stores the document even when it reports an error.
CacherSet_StoresOnError(key, user, fail) == Put(cache, key, Marshal(user))

\* A SET that stores nothing.
CacherSet_Dropped(key, user, fail) == cache

\* Set: marshal, then SET key doc with expiration 0 (none).
CacherSet(key, user, fail) == IF fail THEN cache ELSE Put(cache, key, Marshal(user))

\* A DEL that empties the key space (FLUSHDB).
CacherDel_Flush(key, fail) == IF fail THEN cache ELSE [k \in {} |-> cache[key]]

\* A DEL that removes nothing.
CacherDel_Kept(key, fail) == cache

\* Del: DEL key; deleting an absent key is not an error.
CacherDel(key, fail) == IF fail THEN cache ELSE Remove(cache, key)

\* --------------------------------------------------- PostgreSQLUserStorer
\* A First that also finds soft-deleted rows (db.Unscoped()).
First_Unscoped(id, fail) ==
    IF fail THEN [user |-> ZeroUser, err |-> "error"]
    ELSE IF id \in DOMAIN store THEN [user |-> store[id], err |-> "ok"]
    ELSE [user |-> ZeroUser, err |-> "notfound"]

\* db.First(&user, id): the row with that id that is not soft-deleted.
First(id, fail) ==
    IF fail THEN [user |-> ZeroUser, err |-> "error"]
    ELSE IF Visible(id) THEN [user |-> store[id], err |-> "ok"]
    ELSE [user |-> ZeroUser, err |-> "notfound"]

\* The sequences that list every element of S once.
Orderings(S) ==
    {s \in [1..Cardinality(S) -> S] : \A i, j \in 1..Cardinality(S) : s[i] = s[j] => i = j}

\* A Find that does not leave out the soft-deleted rows.
Find_Unscoped == Orderings({store[i] : i \in DOMAIN store})

\* db.Find(&users): SELECT of the rows that are not soft-deleted, with no
\* ORDER BY: the slice can come in any order.
Find == Orderings({store[i] : i \in {x \in DOMAIN store : Visible(x)}})

\* ------------------------------------------------------------ UserService
\* GetUserById after cacher.Get: an error is a 500, a hit is the response
\* (status 200 by default), a miss goes on to the store.
AfterCacherGet_FallThrough(r, g) ==
    IF g.err THEN Respond(r, StatusInternalServerError, <<>>)
    ELSE [r EXCEPT !.pc = "GetUser", !.user = g.user]

AfterCacherGet_ErrFallsThrough(r, g) ==
    IF ~g.err /\ g.found THEN Respond([r EXCEPT !.user = g.user], StatusOK, <<g.user>>)
    ELSE [r EXCEPT !.pc = "GetUser"]

AfterCacherGet(r, g) ==
    IF g.err THEN Respond(r, StatusInternalServerError, <<>>)
    ELSE IF g.found THEN Respond([r EXCEPT !.user = g.user], StatusOK, <<g.user>>)
    ELSE [r EXCEPT !.pc = "GetUser"]

\* GetUserById after storer.GetUser: not found is a 404, another error a 500,
\* a record goes on to the cache.
AfterGetUser_NoCache(r, g) ==
    IF g.err = "notfound" THEN Respond(r, StatusNotFound, <<>>)
    ELSE IF g.err = "error" THEN Respond(r, StatusInternalServerError, <<>>)
    ELSE Respond([r EXCEPT !.user = g.user], StatusOK, <<g.user>>)

AfterGetUser_CacheNotFound(r, g) ==
    IF g.err = "error" THEN Respond(r, StatusInternalServerError, <<>>)
    ELSE [r EXCEPT !.pc = "Set", !.user = g.user]

AfterGetUser(r, g) ==
    IF g.err = "notfound" THEN Respond(r, StatusNotFound, <<>>)
    ELSE IF g.err = "error" THEN Respond(r, StatusInternalServerError, <<>>)
    ELSE [r EXCEPT !.pc = "Set", !.user = g.user]

\* GetUserById / UpdateUserById after cacher.Set: an error is a 500, otherwise
\* 200 with the user.
AfterCacherSet_IgnoreErr(r, fail) == Respond(r, StatusOK, <<r.user>>)

AfterCacherSet(r, fail) ==
    IF fail THEN Respond(r, StatusInternalServerError, <<>>)
    ELSE Respond(r, StatusOK, <<r.user>>)

\* UpdateUserById after storer.UpdateUser.
AfterUpdateUser_IgnoreErr(r, err) == [r EXCEPT !.pc = "Set"]

AfterUpdateUser(r, err) ==
    IF err = "notfound" THEN Respond(r, StatusNotFound, <<>>)
    ELSE IF err = "error" THEN Respond(r, StatusInternalServerError, <<>>)
    ELSE [r EXCEPT !.pc = "Set"]

\* DeleteUserById after storer.DeleteUser.
AfterDeleteUser_IgnoreErr(r, err) == [r EXCEPT !.pc = "Del"]

AfterDeleteUser(r, err) ==
    IF err = "notfound" THEN Respond(r, StatusNotFound, <<>>)
    ELSE IF err = "error" THEN Respond(r, StatusInternalServerError, <<>>)
    ELSE [r EXCEPT !.pc = "Del"]

\* DeleteUserById after cacher.Del.
AfterCacherDel_IgnoreErr(r, fail) == Respond(r, StatusNoContent, <<>>)

AfterCacherDel_MissIsError(r, fail) ==
    IF fail \/ r.got = <<>> THEN Respond(r, StatusInternalServerError, <<>>)
    ELSE Respond(r, StatusNoContent, <<>>)

AfterCacherDel(r, fail) ==
    IF fail THEN Respond(r, StatusInternalServerError, <<>>)
    ELSE Respond(r, StatusNoContent, <<>>)

\* ------------------------------------------------------------------- Init
NoRows == [i \in {} |-> ZeroUser]

NoKeys == [k \in {} |-> Marshal(ZeroUser)]

Init ==
    /\ store = NoRows
    /\ seq = 0
    /\ cache = NoKeys
    /\ faults = 0
    /\ committed = [i \in {} |-> {}]
    /\ req = [w \in Workers |-> Idle]

\* ----------------------------------------------------------- GET /users/{id}
GetUserById(w, ids) ==
    /\ Free(w)
    /\ \E idStr \in ids :
         LET r == NewRequest("Read", idStr, EmptyBody)
             v == validateId(idStr)
         IN  Accept(w, IF v.err THEN Respond(r, StatusBadRequest, <<>>)
                     ELSE [r EXCEPT !.id = v.id, !.pc = "Get"])

GetUserById_Get(w) ==
    /\ req[w].op = "Read" /\ req[w].pc = "Get"
    /\ \E fail \in FailChoices :
         LET key == Itoa(req[w].id)
             g == CacherGet(key, fail)
             res == IF g.err THEN "error" ELSE IF g.found THEN "hit" ELSE "miss"
             r == [Call(req[w], "Cache.Get", res)
                     EXCEPT !.got = IF g.found THEN <<cache[key]>> ELSE <<>>]
         IN  Step(w, AfterCacherGet(r, g), fail)
    /\ UNCHANGED <<store, seq, cache, committed>>

GetUserById_GetUser(w) ==
    /\ req[w].op = "Read" /\ req[w].pc = "GetUser"
    /\ \E fail \in FailChoices :
         LET g == First(req[w].id, fail)
         IN  Step(w, AfterGetUser(Call(req[w], "Store.Get", g.err), g), fail)
    /\ UNCHANGED <<store, seq, cache, committed>>

GetUserById_Set(w) ==
    /\ req[w].op = "Read" /\ req[w].pc = "Set"
    /\ \E fail \in FailChoices :
         /\ cache' = CacherSet(Itoa(req[w].id), req[w].user, fail)
         /\ Step(w, AfterCacherSet(Call(req[w], "Cache.Set", IF fail THEN "error" ELSE "ok"),
                                   fail), fail)
    /\ UNCHANGED <<store, seq, committed>>

\* ----------------------------------------------------------- PUT /users/{id}
\* A PUT that takes the user's ID from the request body when it has one.
UpdateUserById_BodyId(w, ids) ==
    /\ Free(w)
    /\ \E idStr \in ids, body \in UpdateBodies :
         LET r == NewRequest("Update", idStr, body)
             v == validateId(idStr)
             d == Decode(body)
             id == IF d.user.ID # 0 THEN d.user.ID ELSE v.id
         IN  Accept(w, IF v.err THEN Respond(r, StatusBadRequest, <<>>)
                     ELSE IF d.err \/ NameMissing(d.user)
                          THEN Respond([r EXCEPT !.id = v.id], StatusBadRequest, <<>>)
                     ELSE [r EXCEPT !.id = v.id, !.pc = "UpdateUser.First",
                                    !.updates = d.user,
                                    !.user = [ZeroUser EXCEPT !.ID = id,
                                                              !.Name = d.user.Name]])

\* validateId, Decode, the name check, then the User handed to the storer.
UpdateUserById(w, ids) ==
    /\ Free(w)
    /\ \E idStr \in ids, body \in UpdateBodies :
         LET r == NewRequest("Update", idStr, body)
             v == validateId(idStr)
             d == Decode(body)
         IN  Accept(w, IF v.err THEN Respond(r, StatusBadRequest, <<>>)
                     ELSE IF d.err \/ NameMissing(d.user)
                          THEN Respond([r EXCEPT !.id = v.id], StatusBadRequest, <<>>)
                     ELSE [r EXCEPT !.id = v.id, !.pc = "UpdateUser.First",
                                    !.updates = d.user,
                                    !.user = [ZeroUser EXCEPT !.ID = v.id,
                                                              !.Name = d.user.Name]])

\* UpdateUser, first statement: db.First(&existingUser, user.ID).
UpdateUser_First(w) ==
    /\ req[w].op = "Update" /\ req[w].pc = "UpdateUser.First"
    /\ \E fail \in FailChoices :
         LET g == First(req[w].user.ID, fail)
         IN  Step(w, IF g.err = "ok"
                     THEN [req[w] EXCEPT !.pc = "UpdateUser.Save", !.existingUser = g.user]
                     ELSE AfterUpdateUser(Call(req[w], "Store.Update", g.err), g.err),
                  fail)
    /\ UNCHANGED <<store, seq, cache, committed>>

\* UpdateUser, second statement: existingUser.Name = updates.Name, then
\* db.Save(&existingUser), which writes every column of existingUser to the
\* row that is not soft-deleted.  When the row was soft-deleted since First,
\* the UPDATE matches nothing and Save goes on to insert: depending on the
\* gorm release that is an upsert (the row is overwritten, deleted_at NULL
\* again) or a plain INSERT (duplicate key, an error).
UpdateUser_Save(w) ==
    /\ req[w].op = "Update" /\ req[w].pc = "UpdateUser.Save"
    /\ \E fail \in FailChoices, upsert \in BOOLEAN :
         LET r == req[w]
             row == [r.existingUser EXCEPT !.Name = r.updates.Name, !.UpdatedAt = Now]
             gone == ~Visible(r.user.ID)
             err == IF fail \/ (gone /\ ~upsert) THEN "error" ELSE "ok"
         IN  /\ gone \/ upsert
             /\ store' = IF err = "ok" THEN Put(store, r.user.ID, row) ELSE store
             /\ committed' = IF err = "ok" THEN Commit(r.user.ID, row.Name) ELSE committed
             /\ Step(w, AfterUpdateUser(Call(r, "Store.Update", err), err), fail)
    /\ UNCHANGED <<seq, cache>>

UpdateUserById_Set(w) ==
    /\ req[w].op = "Update" /\ req[w].pc = "Set"
    /\ \E fail \in FailChoices :
         /\ cache' = CacherSet(Itoa(req[w].id), req[w].user, fail)
         /\ Step(w, AfterCacherSet(Call(req[w], "Cache.Set", IF fail THEN "error" ELSE "ok"),
                                   fail), fail)
    /\ UNCHANGED <<store, seq, committed>>

\* -------------------------------------------------------- DELETE /users/{id}
DeleteUserById(w, ids) ==
    /\ Free(w)
    /\ \E idStr \in ids :
         LET r == NewRequest("Delete", idStr, EmptyBody)
             v == validateId(idStr)
         IN  Accept(w, IF v.err THEN Respond(r, StatusBadRequest, <<>>)
                     ELSE [r EXCEPT !.id = v.id, !.pc = "DeleteUser.First"])

\* DeleteUser, first statement: db.First(&user, id).
DeleteUser_First(w) ==
    /\ req[w].op = "Delete" /\ req[w].pc = "DeleteUser.First"
    /\ \E fail \in FailChoices :
         LET g == First(req[w].id, fail)
         IN  Step(w, IF g.err = "ok"
                     THEN [req[w] EXCEPT !.pc = "DeleteUser.Delete", !.existingUser = g.user]
                     ELSE AfterDeleteUser(Call(req[w], "Store.Delete", g.err), g.err),
                  fail)
    /\ UNCHANGED <<store, seq, cache, committed>>

\* DeleteUser, second statement: db.Delete(&user, id) sets deleted_at on the
\* row if it is not soft-deleted already; matching no row is not an error.
DeleteUser_Delete(w) ==
    /\ req[w].op = "Delete" /\ req[w].pc = "DeleteUser.Delete"
    /\ \E fail \in FailChoices :
         LET r == req[w]
             hit == ~fail /\ Visible(r.id)
             err == IF fail THEN "error" ELSE "ok"
         IN  /\ store' = IF hit
                         THEN [store EXCEPT ![r.id].DeletedAt = [Time |-> Now, Valid |-> TRUE]]
                         ELSE store
             /\ Step(w, AfterDeleteUser(Call(r, "Store.Delete", err), err), fail)
    /\ UNCHANGED <<seq, cache, committed>>

DeleteUserById_Del(w) ==
    /\ req[w].op = "Delete" /\ req[w].pc = "Del"
    /\ \E fail \in FailChoices :
         /\ cache' = CacherDel(Itoa(req[w].id), fail)
         /\ LET key == Itoa(req[w].id)
                 r == [Call(req[w], "Cache.Del", IF fail THEN "error" ELSE "ok")
                         EXCEPT !.got = IF ~fail /\ key \in DOMAIN cache THEN <<cache[key]>>
                                        ELSE <<>>]
             IN  Step(w, AfterCacherDel(r, fail), fail)
    /\ UNCHANGED <<store, seq, committed>>

\* ---------------------------------------------------------------- POST /users
\* nextval of the users table's id sequence, which starts at 1.
NextVal_FromZero == seq

NextVal == seq + 1

\* Creates in flight that will draw an id from the sequence.
Creating == Cardinality({w \in Workers : req[w].op = "Create" /\ req[w].pc = "CreateUser"})

CreateUser(w, n) ==
    /\ Free(w)
    /\ seq + Creating < n
    /\ \E body \in CreateBodies :
         LET r == NewRequest("Create", <<>>, body)
             d == Decode(body)
         IN  Accept(w, IF d.err \/ NameMissing(d.user) THEN Respond(r, StatusBadRequest, <<>>)
                       ELSE [r EXCEPT !.pc = "CreateUser", !.user = d.user])

\* A POST that also stores the created user in the cache.
CreateUser_Create_Cached(w) ==
    /\ req[w].op = "Create" /\ req[w].pc = "CreateUser"
    /\ \E fail \in FailChoices :
         LET r == req[w]
             id == IF r.user.ID = 0 THEN seq + 1 ELSE r.user.ID
             err == fail \/ id \in DOMAIN store
             row == [r.user EXCEPT !.ID = id, !.CreatedAt = Now, !.UpdatedAt = Now]
         IN  /\ seq' = IF ~fail /\ r.user.ID = 0 THEN seq + 1 ELSE seq
             /\ store' = IF err THEN store ELSE Put(store, id, row)
             /\ committed' = IF err THEN committed ELSE Commit(id, row.Name)
             /\ cache' = IF err THEN cache ELSE Put(cache, Itoa(id), Marshal(row))
             /\ Step(w, IF err
                        THEN Respond(Call(r, "Store.Create", "error"),
                                     StatusInternalServerError, <<>>)
                        ELSE Respond([Call(r, "Store.Create", "ok") EXCEPT !.user = row],
                                     StatusCreated, <<row>>),
                     fail)

\* db.Create(user): INSERT of every field of user; a zero ID is drawn from the
\* table's sequence, zero CreatedAt/UpdatedAt are set to the current time; an
\* id that already has a row (soft-deleted or not) is a duplicate key.
CreateUser_Create(w) ==
    /\ req[w].op = "Create" /\ req[w].pc = "CreateUser"
    /\ \E fail \in FailChoices :
         LET r == req[w]
             drawn == ~fail /\ r.user.ID = 0
             id == IF r.user.ID = 0 THEN NextVal ELSE r.user.ID
             err == fail \/ id \in DOMAIN store
             row == [r.user EXCEPT !.ID = id, !.CreatedAt = Now, !.UpdatedAt = Now]
         IN  /\ seq' = IF drawn THEN seq + 1 ELSE seq
             /\ store' = IF err THEN store ELSE Put(store, id, row)
             /\ committed' = IF err THEN committed ELSE Commit(id, row.Name)
             /\ Step(w, IF err
                        THEN Respond(Call(r, "Store.Create", "error"),
                                     StatusInternalServerError, <<>>)
                        ELSE Respond([Call(r, "Store.Create", "ok") EXCEPT !.user = row],
                                     StatusCreated, <<row>>),
                     fail)
    /\ UNCHANGED <<cache>>

\* ----------------------------------------------------------------- GET /users
GetAllUsers(w) ==
    /\ Free(w)
    /\ Accept(w, [NewRequest("List", <<>>, EmptyBody) EXCEPT !.pc = "GetUsers"])

GetAllUsers_GetUsers(w) ==
    /\ req[w].op = "List" /\ req[w].pc = "GetUsers"
    /\ \E fail \in FailChoices, users \in Find :
         LET r == Call(req[w], "Store.GetAll", IF fail THEN "error" ELSE "ok")
         IN  Step(w, IF fail THEN Respond(r, StatusInternalServerError, <<>>)
                     ELSE IF Len(users) = 0 THEN Respond(r, StatusNoContent, <<>>)
                     ELSE Respond(r, StatusOK, users), fail)
    /\ UNCHANGED <<store, seq, cache, committed>>

\* ------------------------------------------------------ withNotFoundHandler
\* GET, PUT or DELETE /users/ (no id segment) matches none of the patterns:
\* mux.Handler gives pattern "", the answer is 404 "Error: Route not found"
\* and no handler runs.
withNotFoundHandler(w) ==
    /\ Free(w)
    /\ Accept(w, Respond(NewRequest("NoRoute", <<>>, EmptyBody), StatusNotFound, <<>>))

\* ------------------------------------------------------------------- Next
\* What worker w can do next, with path values drawn from ids and a users
\* table of at most n rows.
Handle(w, ids, n) ==
        \/ GetUserById(w, ids)
        \/ GetUserById_Get(w)
        \/ GetUserById_GetUser(w)
        \/ GetUserById_Set(w)
        \/ UpdateUserById(w, ids)
        \/ UpdateUser_First(w)
        \/ UpdateUser_Save(w)
        \/ UpdateUserById_Set(w)
        \/ DeleteUserById(w, ids)
        \/ DeleteUser_First(w)
        \/ DeleteUser_Delete(w)
        \/ DeleteUserById_Del(w)
        \/ CreateUser(w, n)
        \/ CreateUser_Create(w)
        \/ GetAllUsers(w)
        \/ GetAllUsers_GetUsers(w)

\* Concurrent requests, one goroutine each.
Next == \E w \in Workers : Handle(w, PlainIds, MaxId)

Spec == Init /\ [][Next]_vars

\* Requests arrive one after another: a request is accepted, and served, while
\* no other is in flight.
Alone(w) == \A x \in Workers \ {w} : ~InFlight(x)

NextSeq ==
    \E w \in Workers : Alone(w) /\ (Handle(w, IdStrings, MaxId) \/ withNotFoundHandler(w))

SpecSeq == Init /\ [][NextSeq]_vars

\* The same with a users table of MaxRows rows and path values 0..MaxRows.
RowIds == {Itoa(i) : i \in 0..MaxRows}

NextRows == \E w \in Workers : Alone(w) /\ Handle(w, RowIds, MaxRows)

SpecRows == Init /\ [][NextRows]_vars

\* The steps of the handler worker w is running: its adapter calls.  Each
\* goroutine is scheduled again and again and every adapter call returns,
\* which is weak fairness of these steps; nothing makes a request arrive.
Serve(w) ==
    \/ GetUserById_Get(w) \/ GetUserById_GetUser(w) \/ GetUserById_Set(w)
    \/ UpdateUser_First(w) \/ UpdateUser_Save(w) \/ UpdateUserById_Set(w)
    \/ DeleteUser_First(w) \/ DeleteUser_Delete(w) \/ DeleteUserById_Del(w)
    \/ CreateUser_Create(w)
    \/ GetAllUsers_GetUsers(w)

SpecLive == Spec /\ \A w \in Workers : WF_vars(Serve(w))

\* ================================================================= claims
StoreCalls == {"Store.Get", "Store.GetAll", "Store.Create", "Store.Update", "Store.Delete"}

CacheWrites == {"Cache.Set", "Cache.Del"}

CallsTo(r, names) == {i \in 1..Len(r.calls) : r.calls[i].call \in names}

Finished(r, op) == r.op = op /\ r.pc = "done"

\* C1: a GET /users/{id} whose Cache.Get found a value answers 200 with that
\* value and has made no call to the store.
C1_HitServedFromCache ==
    \A w \in Workers :
        Finished(req[w], "Read") /\ req[w].got # <<>> =>
            /\ req[w].status = StatusOK
            /\ req[w].out = <<Unmarshal(req[w].got[1])>>
            /\ CallsTo(req[w], StoreCalls) = {}

C1_Witness ==
    \E w \in Workers :
        /\ Finished(req[w], "Read") /\ req[w].got # <<>>
        /\ req[w].status = StatusOK /\ req[w].out[1].Name \in Names

\* C2: one request at a time: a GET /users/{id} that misses the cache while the
\* store holds a visible row for id, none of its adapter calls failing, has
\* called Cache.Get, then Store.Get once, then Cache.Set once with that row,
\* and answers 200 with the row; before Cache.Set has run it has written no
\* response.
C2_MissReadsStoreThenSetsCache ==
    \A w \in Workers :
        /\ Finished(req[w], "Read") /\ ~req[w].faulted /\ Visible(req[w].id)
             /\ req[w].calls # <<>> /\ req[w].calls[1].res = "miss" =>
                /\ req[w].calls = <<[call |-> "Cache.Get", res |-> "miss"],
                                    [call |-> "Store.Get", res |-> "ok"],
                                    [call |-> "Cache.Set", res |-> "ok"]>>
                /\ req[w].status = StatusOK
                /\ req[w].out = <<store[req[w].id]>>
                /\ Itoa(req[w].id) \in DOMAIN cache
                /\ cache[Itoa(req[w].id)] = Marshal(store[req[w].id])
        /\ req[w].op = "Read" /\ req[w].pc \in {"Get", "GetUser", "Set"} =>
                /\ req[w].status = 0 /\ req[w].out = <<>>
                /\ CallsTo(req[w], {"Cache.Set"}) = {}

C2_Witness ==
    \E w \in Workers :
        /\ Finished(req[w], "Read") /\ ~req[w].faulted /\ Visible(req[w].id)
        /\ Len(req[w].calls) = 3 /\ req[w].calls[1].res = "miss"
        /\ req[w].status = StatusOK

\* C3: in a PUT or DELETE request every Cache.Set / Cache.Del comes after the
\* store mutation of the same request has returned success, and the handler
\* stands at its cache call only with that success as its latest call.
StoreMutation(op) == IF op = "Update" THEN "Store.Update" ELSE "Store.Delete"

C3_StoreBeforeCache ==
    \A w \in Workers :
        req[w].op \in {"Update", "Delete"} =>
            /\ \A i \in CallsTo(req[w], CacheWrites) :
                   \E j \in 1..(i - 1) :
                       req[w].calls[j] = [call |-> StoreMutation(req[w].op), res |-> "ok"]
            /\ req[w].pc \in {"Set", "Del"} =>
                   /\ req[w].calls # <<>>
                   /\ req[w].calls[Len(req[w].calls)] =
                          [call |-> StoreMutation(req[w].op), res |-> "ok"]

C3_Witness ==
    \E w \in Workers :
        /\ Finished(req[w], "Delete") /\ req[w].status = StatusNoContent
        /\ req[w].calls = <<[call |-> "Store.Delete", res |-> "ok"],
                            [call |-> "Cache.Del", res |-> "ok"]>>

Quiet == \A w \in Workers : ~InFlight(w)

\* C4: with no adapter failure, whenever no request is in flight a cache
\* entry for id carries the name the users table holds for id.
C4_QuietCacheMatchesStore ==
    Quiet /\ faults = 0 =>
        \A id \in 1..MaxId :
            Itoa(id) \in DOMAIN cache =>
                id \in DOMAIN store /\ cache[Itoa(id)].name = store[id].Name

\* C5: when two overlapping PUTs for the same id have both answered 200, the
\* cache entry carries the name of the one whose store write committed last,
\* which is the name the row holds.
C5_LastCommitWinsInCache ==
    \A w1, w2 \in Workers :
        /\ w1 # w2
        /\ Finished(req[w1], "Update") /\ req[w1].status = StatusOK
        /\ Finished(req[w2], "Update") /\ req[w2].status = StatusOK
        /\ req[w1].id = req[w2].id
        => /\ Itoa(req[w1].id) \in DOMAIN cache
           /\ cache[Itoa(req[w1].id)].name = store[req[w1].id].Name

\* C6: a GET /users/{id} accepted while the row of id is soft-deleted does not
\* answer 200 with that record.
C6_DeletedStaysInvisible ==
    \A w \in Workers :
        Finished(req[w], "Read") /\ req[w].afterDelete =>
            ~(req[w].status = StatusOK /\ req[w].out # <<>> /\ req[w].out[1].ID = req[w].id)

\* C7: one request at a time: a GET /users/{id} that follows a PUT of name X
\* for the same id that answered 200, its adapter calls not failing, answers
\* 200 with name X, the value being the cache entry of id, and has made no
\* call to the store.
C7_ReadAfterUpdate ==
    \A w \in Workers :
        /\ Finished(req[w], "Read") /\ ~req[w].faulted
        /\ req[w].pred.op = "Update" /\ req[w].pred.status = StatusOK
        /\ req[w].pred.id = req[w].id
        => /\ req[w].status = StatusOK
           /\ req[w].out # <<>> /\ req[w].out[1].Name = req[w].pred.name
           /\ Itoa(req[w].id) \in DOMAIN cache
           /\ Marshal(req[w].out[1]) = cache[Itoa(req[w].id)]
           /\ CallsTo(req[w], StoreCalls) = {}

C7_Witness ==
    \E w \in Workers :
        /\ Finished(req[w], "Read") /\ ~req[w].faulted
        /\ req[w].pred.op = "Update" /\ req[w].pred.status = StatusOK
        /\ req[w].pred.id = req[w].id /\ req[w].pred.name = "b"
        /\ req[w].status = StatusOK /\ req[w].out[1].Name = "b"

\* C8: one request at a time: a GET /users/{id} that follows a DELETE of the
\* same id that answered 204, its adapter calls not failing, finds nothing in
\* the cache, gets not-found from the store and answers 404.
C8_ReadAfterDelete ==
    \A w \in Workers :
        /\ Finished(req[w], "Read") /\ ~req[w].faulted
        /\ req[w].pred.op = "Delete" /\ req[w].pred.status = StatusNoContent
        /\ req[w].pred.id = req[w].id
        => /\ req[w].calls = <<[call |-> "Cache.Get", res |-> "miss"],
                               [call |-> "Store.Get", res |-> "notfound"]>>
           /\ req[w].got = <<>>
           /\ req[w].status = StatusNotFound

C8_Witness ==
    \E w \in Workers :
        /\ Finished(req[w], "Read") /\ ~req[w].faulted
        /\ req[w].pred.op = "Delete" /\ req[w].pred.status = StatusNoContent
        /\ req[w].pred.id = req[w].id
        /\ req[w].status = StatusNotFound

\* C9: a GET /users/{id} that follows the POST (non-empty name) that answered
\* 201 with that id, its adapter calls not failing, answers 200 with the same
\* name, and the cache then holds an entry for the id with that name.
C9_ReadAfterCreate ==
    \A w \in Workers :
        /\ Finished(req[w], "Read") /\ ~req[w].faulted
        /\ req[w].pred.op = "Create" /\ req[w].pred.status = StatusCreated
        /\ req[w].pred.rid = req[w].id
        => /\ req[w].status = StatusOK
           /\ req[w].out # <<>> /\ req[w].out[1].Name = req[w].pred.name
           /\ Itoa(req[w].id) \in DOMAIN cache
           /\ cache[Itoa(req[w].id)].name = req[w].pred.name

\* C10: GET, PUT and DELETE with a path id that is non-numeric, zero or
\* negative answer 400 in the step that accepts them, without an adapter call
\* and with the users table and the cache as they were; so does any id that
\* validateId refuses, and validateId refuses the empty id, which no routed
\* request carries.
BadIds == {<<"a">>, <<"1", "a">>, <<"0">>, <<"-", "1">>}

C10_BadIdRefused ==
    [][\A w \in Workers :
          /\ req'[w] # req[w]
          /\ req'[w].op \in {"Read", "Update", "Delete"}
          /\ req'[w].idStr \in BadIds \/ validateId(req'[w].idStr).err
          => /\ validateId(<<>>).err
             /\ req'[w].pc = "done"
             /\ req'[w].status = StatusBadRequest
             /\ req'[w].calls = <<>>
             /\ store' = store /\ cache' = cache /\ seq' = seq]_vars

C10_Witness ==
    \E w \in Workers :
        /\ Finished(req[w], "Update") /\ req[w].idStr = <<"-", "1">>
        /\ req[w].body.name = "a"
        /\ Visible(1)
        /\ req[w].status = StatusBadRequest /\ req[w].calls = <<>>

\* C11: POST and PUT whose body is an object with an empty name answer 400 in
\* the step that accepts them, without an adapter call and with the users
\* table and the cache as they were; for PUT also when the path id is valid
\* and its row exists.
C11_EmptyNameRefused ==
    [][\A w \in Workers :
          /\ req'[w] # req[w]
          /\ req'[w].op \in {"Create", "Update"}
          /\ req'[w].body.valid /\ req'[w].body.name = ""
          => /\ req'[w].pc = "done"
             /\ req'[w].status = StatusBadRequest
             /\ req'[w].calls = <<>>
             /\ store' = store /\ cache' = cache /\ seq' = seq]_vars

C11_Witness ==
    \E w \in Workers :
        /\ Finished(req[w], "Update") /\ req[w].id = 1 /\ Visible(1)
        /\ req[w].body.valid /\ req[w].body.name = ""
        /\ req[w].status = StatusBadRequest /\ req[w].calls = <<>>

CacheCalls == {"Cache.Get", "Cache.Set", "Cache.Del"}

\* C12: no step of a POST changes the cache or calls it, the cache holds no
\* entry for the id of the created user when the POST answers 201, and a key
\* enters the cache only in the Cache.Set of a GET or PUT of that id.
C12_CreateLeavesCacheAlone ==
    [][/\ \A w \in Workers :
            req'[w] # req[w] /\ req'[w].op = "Create" =>
                /\ cache' = cache
                /\ CallsTo(req'[w], CacheCalls) = {}
                /\ req'[w].status = StatusCreated =>
                       Itoa(req'[w].out[1].ID) \notin DOMAIN cache'
       /\ \A k \in DOMAIN cache' \ DOMAIN cache :
            \E w \in Workers :
                /\ req[w].op \in {"Read", "Update"} /\ req[w].pc = "Set"
                /\ Itoa(req[w].id) = k
                /\ req'[w].pc = "done"]_vars

C12_Witness ==
    \E w \in Workers :
        /\ Finished(req[w], "Create") /\ req[w].status = StatusCreated
        /\ req[w].calls = <<[call |-> "Store.Create", res |-> "ok"]>>
        /\ Visible(req[w].out[1].ID)
        /\ Itoa(req[w].out[1].ID) \notin DOMAIN cache

VisibleIds == {i \in DOMAIN store : Visible(i)}

\* C13: GET /users makes one call, Store.GetAll, and none to the cache; the
\* step that answers leaves the users table and the cache as they were and,
\* the call not failing, answers 204 without a body when no row is visible
\* and otherwise 200 with exactly the rows that are not soft-deleted, one
\* element each, whatever the cache holds.
C13_ListReadsOnlyTheStore ==
    [][\A w \in Workers :
          /\ req[w].op = "List" => req[w].pc \in {"GetUsers", "done"}
          /\ req[w].op = "List" /\ req[w].pc = "GetUsers" => req[w].calls = <<>>
          /\ req[w].op = "List" /\ req[w].pc = "GetUsers" /\ req'[w] # req[w] =>
                /\ req'[w].pc = "done"
                /\ store' = store /\ cache' = cache
                /\ Len(req'[w].calls) = 1 /\ req'[w].calls[1].call = "Store.GetAll"
                /\ req'[w].calls[1].res = "error" =>
                       req'[w].status = StatusInternalServerError
                /\ req'[w].calls[1].res = "ok" =>
                       IF VisibleIds = {}
                       THEN req'[w].status = StatusNoContent /\ req'[w].out = <<>>
                       ELSE /\ req'[w].status = StatusOK
                            /\ Len(req'[w].out) = Cardinality(VisibleIds)
                            /\ {req'[w].out[j] : j \in 1..Len(req'[w].out)}
                                   = {store[i] : i \in VisibleIds}]_vars

C13_Witness ==
    \E w \in Workers :
        /\ Finished(req[w], "List") /\ req[w].status = StatusOK
        /\ Len(req[w].out) = 2 /\ VisibleIds = {1, 2}
        /\ req[w].out[1].ID = 2 /\ req[w].out[2].ID = 1
        /\ \E i \in VisibleIds :
               Itoa(i) \in DOMAIN cache /\ cache[Itoa(i)].name # store[i].Name

\* C14: when the storer of a PUT or DELETE with a valid id looks the row up
\* and there is no visible row (none, or a soft-deleted one), the lookup not
\* failing, the request answers 404 in that step having made that one store
\* call and no cache call, and the users table and the cache stay as they
\* were; a PUT or DELETE that answered 404 has made no cache call.
C14_AbsentRowIs404 ==
    [][\A w \in Workers :
          /\ /\ req[w].pc \in {"UpdateUser.First", "DeleteUser.First"}
             /\ ~Visible(req[w].id)
             /\ req'[w] # req[w] /\ ~req'[w].faulted
             => /\ req'[w].pc = "done"
                /\ req'[w].status = StatusNotFound
                /\ req'[w].calls = <<[call |-> StoreMutation(req[w].op), res |-> "notfound"]>>
                /\ store' = store /\ cache' = cache
          /\ /\ req[w].op \in {"Update", "Delete"}
             /\ req[w].status = StatusNotFound
             => CallsTo(req[w], CacheCalls) = {}]_vars

C14_Witness ==
    \E w \in Workers :
        /\ Finished(req[w], "Update") /\ req[w].status = StatusNotFound
        /\ req[w].calls = <<[call |-> "Store.Update", res |-> "notfound"]>>
        /\ SoftDeleted(req[w].id)
        /\ Itoa(req[w].id) \in DOMAIN cache

CacheMutation(op) == IF op = "Update" THEN "Cache.Set" ELSE "Cache.Del"

\* C15: when the Cache.Set of a PUT or the Cache.Del of a DELETE fails, the
\* store mutation of the request having succeeded, that step answers 500
\* without a body and leaves the users table (the mutation stays) and the
\* cache as they were; the failed call was the request's only cache call.
C15_CacheFailureAfterStoreSuccess ==
    [][\A w \in Workers :
          /\ req[w].op \in {"Update", "Delete"} /\ req[w].pc \in {"Set", "Del"}
          /\ req'[w] # req[w]
          /\ req'[w].calls[Len(req'[w].calls)].res = "error"
          => /\ req'[w].pc = "done"
             /\ req'[w].status = StatusInternalServerError /\ req'[w].out = <<>>
             /\ req'[w].calls = <<[call |-> StoreMutation(req[w].op), res |-> "ok"],
                                  [call |-> CacheMutation(req[w].op), res |-> "error"]>>
             /\ store' = store /\ cache' = cache]_vars

C15_Witness ==
    \E w \in Workers :
        /\ Finished(req[w], "Update") /\ req[w].status = StatusInternalServerError
        /\ req[w].calls = <<[call |-> "Store.Update", res |-> "ok"],
                            [call |-> "Cache.Set", res |-> "error"]>>
        /\ store[req[w].id].Name = req[w].body.name
        /\ Itoa(req[w].id) \in DOMAIN cache
        /\ cache[Itoa(req[w].id)].name # req[w].body.name

\* C16: one request at a time: a GET /users/{id} that missed the cache, got
\* the row from the store and whose Cache.Set failed answers 500 without the
\* record, and the cache holds no entry for id.
C16_ReadCacheSetFailure ==
    \A w \in Workers :
        /\ Finished(req[w], "Read")
        /\ Len(req[w].calls) = 3
        /\ req[w].calls[3] = [call |-> "Cache.Set", res |-> "error"]
        => /\ req[w].calls[1] = [call |-> "Cache.Get", res |-> "miss"]
           /\ req[w].calls[2] = [call |-> "Store.Get", res |-> "ok"]
           /\ req[w].status = StatusInternalServerError
           /\ req[w].out = <<>>
           /\ Itoa(req[w].id) \notin DOMAIN cache

C16_Witness ==
    \E w \in Workers :
        /\ Finished(req[w], "Read") /\ Visible(req[w].id)
        /\ req[w].calls = <<[call |-> "Cache.Get", res |-> "miss"],
                            [call |-> "Store.Get", res |-> "ok"],
                            [call |-> "Cache.Set", res |-> "error"]>>
        /\ req[w].status = StatusInternalServerError
        /\ Itoa(req[w].id) \notin DOMAIN cache

\* C17: every cache entry sits under the decimal string of an id and carries
\* that id and a name the users table has held for it; a handler standing at
\* its Cache.Set holds a user whose name the table has held for the id, got
\* from Store.Get (GET) or written by Store.Update (PUT) as the latest call
\* of the same request.
C17_CachedNamesWereCommitted ==
    /\ \A k \in DOMAIN cache :
           \E i \in DOMAIN committed :
               k = Itoa(i) /\ cache[k].ID = i /\ cache[k].name \in committed[i]
    /\ \A w \in Workers :
           req[w].pc = "Set" =>
               /\ req[w].id \in DOMAIN committed
               /\ req[w].user.ID = req[w].id
               /\ req[w].user.Name \in committed[req[w].id]
               /\ req[w].calls # <<>>
               /\ req[w].calls[Len(req[w].calls)] =
                      [call |-> IF req[w].op = "Read" THEN "Store.Get" ELSE "Store.Update",
                       res |-> "ok"]

C17_Witness ==
    \E i \in DOMAIN store :
        /\ Itoa(i) \in DOMAIN cache
        /\ cache[Itoa(i)].name # store[i].Name
        /\ cache[Itoa(i)].name \in committed[i]
        /\ faults = 1

\* C18: a Cache.Del that does not fail leaves the key absent and everything
\* else in the cache as it was, changes nothing when the key was absent, and
\* a second Del of the key would change nothing more; the DELETE whose
\* Cache.Del found no key answers 204 all the same.
C18_DelOfAbsentKey ==
    [][\A w \in Workers :
          /\ req[w].op = "Delete" /\ req[w].pc = "Del"
          /\ req'[w] # req[w] /\ ~req'[w].faulted
          => LET key == Itoa(req[w].id)
             IN  /\ req'[w].pc = "done" /\ req'[w].status = StatusNoContent
                 /\ cache' = Remove(cache, key)
                 /\ key \notin DOMAIN cache => cache' = cache /\ req'[w].got = <<>>
                 /\ Remove(cache', key) = cache']_vars

C18_Witness ==
    \E w \in Workers :
        /\ Finished(req[w], "Delete") /\ req[w].status = StatusNoContent
        /\ req[w].calls = <<[call |-> "Store.Delete", res |-> "ok"],
                            [call |-> "Cache.Del", res |-> "ok"]>>
        /\ req[w].got = <<>>
        /\ SoftDeleted(req[w].id)

\* C19: every row of the users table has a positive id, which is its key, and
\* every cache key is the decimal string of a positive integer, the ID of the
\* entry under it.
C19_IdsArePositive ==
    /\ \A i \in DOMAIN store : i > 0 /\ store[i].ID = i
    /\ \A k \in DOMAIN cache :
           LET a == Atoi(k)
           IN  ~a.err /\ a.val > 0 /\ k = Itoa(a.val) /\ cache[k].ID = a.val

C19_Witness ==
    \E w \in Workers :
        /\ Finished(req[w], "Update") /\ req[w].idStr = <<"0">>
        /\ req[w].body.name = "a"
        /\ req[w].status = StatusBadRequest
        /\ DOMAIN store # {} /\ DOMAIN cache # {}

\* C20: within one request no adapter operation is called twice, and a call
\* that returned an error (other than not-found) is the request's last call:
\* the request has answered 500 with it; so a GET /users/{id} whose Cache.Get
\* failed has made no call to the store.
C20_NoRetry ==
    \A w \in Workers :
        LET c == req[w].calls
        IN  /\ \A i, j \in 1..Len(c) : c[i].call = c[j].call => i = j
            /\ \A i \in 1..Len(c) :
                   c[i].res = "error" =>
                       /\ i = Len(c)
                       /\ req[w].pc = "done"
                       /\ req[w].status = StatusInternalServerError
            /\ req[w].faulted => c # <<>> /\ c[Len(c)].res = "error"

C20_Witness ==
    \E w \in Workers :
        /\ Finished(req[w], "Read") /\ Visible(req[w].id)
        /\ req[w].calls = <<[call |-> "Cache.Get", res |-> "error"]>>
        /\ req[w].status = StatusInternalServerError

\* C21: under fair scheduling with adapter calls that return, every request
\* in flight gets its response whatever the other workers do, and a response
\* is written exactly when the handler returns: a request that has answered
\* takes no further step.
C21_EveryRequestTerminates ==
    /\ \A w \in Workers : InFlight(w) ~> req[w].pc = "done"
    /\ [][\A w \in Workers :
            /\ (req'[w].pc = "done") <=> (req'[w].status # 0)
            /\ req[w].pc = "done" /\ req'[w] # req[w] => req'[w].calls = <<>>]_vars

C21_Witness ==
    /\ \A w \in Workers : Finished(req[w], "Update") /\ req[w].status = StatusOK
    /\ \A w1, w2 \in Workers : req[w1].id = req[w2].id

\* C22: one request at a time: a soft-deleted row stays soft-deleted and
\* unchanged; a PUT (valid body) or DELETE with the id of a soft-deleted row
\* ends with its store call, which changes nothing in the users table or the
\* cache, and answers 404 (500 if the call failed) having made no cache call.
C22_DeletedRowStaysDeleted ==
    [][/\ \A i \in DOMAIN store :
            SoftDeleted(i) => i \in DOMAIN store' /\ store'[i] = store[i]
       /\ \A w \in Workers :
            /\ req[w].pc \in {"UpdateUser.First", "DeleteUser.First"}
            /\ SoftDeleted(req[w].id)
            /\ req'[w] # req[w]
            => /\ req'[w].pc = "done"
               /\ req'[w].status = IF req'[w].faulted THEN StatusInternalServerError
                                   ELSE StatusNotFound
               /\ Len(req'[w].calls) = 1
               /\ CallsTo(req'[w], CacheCalls) = {}
               /\ cache' = cache]_vars

C22_Witness ==
    \E w \in Workers :
        /\ Finished(req[w], "Update") /\ req[w].status = StatusNotFound
        /\ req[w].body.name = "b"
        /\ SoftDeleted(req[w].id) /\ store[req[w].id].Name = "a"
        /\ Itoa(req[w].id) \notin DOMAIN cache
        /\ faults = 0

\* C23: when the row of a PUT was soft-deleted after the storer's db.First
\* found it, the storer's write (db.Save) leaves the users table as it is and
\* the request ends there without success.
C23_UpdateAtomicWithDelete ==
    [][\A w \in Workers :
          /\ req[w].op = "Update" /\ req[w].pc = "UpdateUser.Save"
          /\ SoftDeleted(req[w].id)
          /\ req'[w] # req[w]
          => /\ store' = store
             /\ req'[w].pc = "done"
             /\ req'[w].status # StatusOK]_vars

\* C24: one request at a time: when a PUT has answered 200, the cache entry
\* of its id is the document of the row of that id, equal in ID, name,
\* CreatedAt, UpdatedAt and DeletedAt, so what a GET decodes from it is the
\* row.
C24_CacheCopyEqualsRow ==
    \A w \in Workers :
        Finished(req[w], "Update") /\ req[w].status = StatusOK =>
            /\ Itoa(req[w].id) \in DOMAIN cache
            /\ cache[Itoa(req[w].id)] = Marshal(store[req[w].id])
            /\ Unmarshal(cache[Itoa(req[w].id)]) = store[req[w].id]

\* C25: a key leaves the cache only in the Cache.Del of a DELETE of that id
\* whose store deletion succeeded; every other step keeps every key that is
\* present (its value may be replaced by a Cache.Set of a GET or PUT of that
\* id).
C25_EntriesDoNotExpire ==
    [][/\ \A k \in DOMAIN cache \ DOMAIN cache' :
            \E w \in Workers :
                /\ req[w].op = "Delete" /\ req[w].pc = "Del"
                /\ Itoa(req[w].id) = k
                /\ req[w].calls = <<[call |-> "Store.Delete", res |-> "ok"]>>
                /\ req'[w].calls = <<[call |-> "Store.Delete", res |-> "ok"],
                                     [call |-> "Cache.Del", res |-> "ok"]>>
       /\ \A k \in DOMAIN cache \cap DOMAIN cache' :
            cache'[k] # cache[k] =>
                \E w \in Workers :
                    /\ req[w].op \in {"Read", "Update"} /\ req[w].pc = "Set"
                    /\ Itoa(req[w].id) = k]_vars

C25_Witness ==
    \E w \in Workers :
        /\ Finished(req[w], "Delete") /\ req[w].status = StatusNoContent
        /\ req[w].got # <<>>
        /\ Itoa(req[w].id) \notin DOMAIN cache

OtherRowsKept(id) ==
    /\ DOMAIN store' = DOMAIN store
    /\ \A i \in DOMAIN store \ {id} : store'[i] = store[i]

OtherKeysKept(id) ==
    /\ DOMAIN cache' \ {Itoa(id)} = DOMAIN cache \ {Itoa(id)}
    /\ \A k \in DOMAIN cache \ {Itoa(id)} : cache'[k] = cache[k]

\* C26: one request at a time: whatever ID the body of a PUT carries, its
\* steps add or remove no row, change no row but that of the path id, of
\* which they change at most Name (the new name) and UpdatedAt, and change
\* no cache key but that of the path id; the cached document and the user
\* in the 200 response carry the path id.
C26_UpdateKeepsTheId ==
    [][\A w \in Workers :
          req[w].op = "Update" /\ InFlight(w) /\ req'[w] # req[w] =>
              LET id == req[w].id
              IN  /\ OtherRowsKept(id) /\ OtherKeysKept(id)
                  /\ id \in DOMAIN store =>
                         /\ store'[id].ID = id
                         /\ [store'[id] EXCEPT !.Name = "", !.UpdatedAt = 0]
                                = [store[id] EXCEPT !.Name = "", !.UpdatedAt = 0]
                         /\ store'[id].Name \in {store[id].Name, req[w].body.name}
                  /\ Itoa(id) \in DOMAIN cache' => cache'[Itoa(id)].ID = id
                  /\ req'[w].status = StatusOK =>
                         req'[w].out # <<>> /\ req'[w].out[1].ID = id]_vars

C26_Witness ==
    \E w \in Workers :
        /\ Finished(req[w], "Update") /\ req[w].status = StatusOK
        /\ req[w].id = 1 /\ req[w].body.ID = 2 /\ req[w].body.name = "b"
        /\ store[1].Name = "b" /\ cache[Itoa(1)].ID = 1 /\ cache[Itoa(1)].name = "b"
        /\ 2 \in DOMAIN store /\ store[2].ID = 2 /\ store[2].Name = "a"
        /\ Itoa(2) \notin DOMAIN cache

\* C27: one request at a time: every step of a GET, PUT or DELETE of id,
\* whatever its outcome, leaves the rows and the cache keys of all other ids
\* as they were (a request refused for its path id changes nothing at all).
C27_OtherIdsUntouched ==
    [][\A w \in Workers :
          req'[w].op \in {"Read", "Update", "Delete"} /\ req'[w] # req[w] =>
              /\ OtherRowsKept(req'[w].id) /\ OtherKeysKept(req'[w].id)
              /\ seq' = seq
              /\ req'[w].id = 0 => store' = store /\ cache' = cache]_vars

C27_Witness ==
    \E w \in Workers :
        /\ Finished(req[w], "Delete") /\ req[w].status = StatusNoContent
        /\ req[w].id = 1 /\ req[w].got # <<>>
        /\ SoftDeleted(1) /\ Itoa(1) \notin DOMAIN cache
        /\ Visible(2) /\ Itoa(2) \in DOMAIN cache

\* C28: no step of a GET /users/{id} changes the users table or its sequence
\* or any cache key but that of id; a step of it changes the cache only as
\* the Cache.Set that follows its cache miss and its successful Store.Get,
\* writing the document of the row it got; a GET that hit the cache has
\* changed nothing.
C28_ReadFrame ==
    [][\A w \in Workers :
          req'[w].op = "Read" /\ req'[w] # req[w] =>
              /\ store' = store /\ seq' = seq /\ committed' = committed
              /\ OtherKeysKept(req'[w].id)
              /\ cache' # cache =>
                     /\ req[w].pc = "Set"
                     /\ req[w].calls = <<[call |-> "Cache.Get", res |-> "miss"],
                                         [call |-> "Store.Get", res |-> "ok"]>>
                     /\ cache' = Put(cache, Itoa(req[w].id), Marshal(req[w].user))
              /\ req'[w].got # <<>> => cache' = cache /\ Len(req'[w].calls) = 1]_vars

C28_Witness ==
    \E w \in Workers :
        /\ Finished(req[w], "Read") /\ req[w].status = StatusOK
        /\ req[w].got # <<>>
        /\ cache[Itoa(req[w].id)] = req[w].got[1]
        /\ cache[Itoa(req[w].id)] # Marshal(store[req[w].id])

\* C29: a PUT answers 200 only in the step in which its Cache.Set succeeded,
\* after its Store.Update succeeded, and that step leaves the new name under
\* the key of id; a DELETE answers 204 only in the step in which its
\* Cache.Del returned without error, after its Store.Delete succeeded, and
\* that step leaves the key of id absent.
C29_SuccessMeansBothLayers ==
    [][\A w \in Workers :
          /\ req'[w].op = "Update" /\ req'[w].status = StatusOK /\ req'[w] # req[w]
             => /\ req[w].pc = "Set"
                /\ req'[w].calls = <<[call |-> "Store.Update", res |-> "ok"],
                                     [call |-> "Cache.Set", res |-> "ok"]>>
                /\ Itoa(req'[w].id) \in DOMAIN cache'
                /\ cache'[Itoa(req'[w].id)].name = req'[w].body.name
          /\ req'[w].op = "Delete" /\ req'[w].status = StatusNoContent /\ req'[w] # req[w]
             => /\ req[w].pc = "Del"
                /\ req'[w].calls = <<[call |-> "Store.Delete", res |-> "ok"],
                                     [call |-> "Cache.Del", res |-> "ok"]>>
                /\ Itoa(req'[w].id) \notin DOMAIN cache']_vars

C29_Witness ==
    \E w1, w2 \in Workers :
        /\ Finished(req[w1], "Update") /\ req[w1].status = StatusOK
        /\ Finished(req[w2], "Delete") /\ req[w2].status = StatusNoContent
        /\ req[w1].id = req[w2].id

====
